---- MODULE Spec2Model ----
(***************************************************************************)
(* ring-webrtc: the WHEP gateway of src/ring_webrtc.                       *)
(*                                                                         *)
(* Processes                                                               *)
(*   binder      cleanup_ctx.wrapper        (decorators.py 16-21)          *)
(*   supervisor  periodic_updates.wrapper running update_devices          *)
(*               (decorators.py 38-48, app.py 46-50)                       *)
(*   handlers    WhepView.post / WhepResourceView.delete (app.py 80-118)   *)
(*                                                                         *)
(* Three further specifications look at one component each, over their own *)
(* variables and with the gateway's variables at rest:                     *)
(*   GroupSpec    TaskWaitGroup                       (helpers.py 32-98)   *)
(*   CodecSpec    the codec substitution of WhepView.post (app.py 81-93)   *)
(*   MonitorSpec  check_session_exists and its registration (app.py 87-97) *)
(*                                                                         *)
(* All of them run on one asyncio event loop: a step of the model is the   *)
(* code a task runs between two suspension points (an await that really    *)
(* suspends: a sleep, a wait for update_lock, a call into the Ring client).*)
(***************************************************************************)
EXTENDS Naturals, Sequences, FiniteSets

\* ---------------------------------------------------------------- bounds
\* Consecutive list-devices failures the environment produces before it
\* lets a call succeed.
MaxFails == 2
\* Completion callbacks registered on the task group.
MaxCallbacks == 3
\* Characters of an offer text, not counting its "o=" prefix.
MaxTextLen == 8
\* Polls of one monitoring task that find the session still there.
MaxPolls == 2

\* ------------------------------------------------------------- constants
\* asyncio.sleep(60) of check_session_exists (app.py 89), in seconds.
PollInterval == 60

\* ------------------------------------------------------------ value sets
None == "none"
Handlers == {"h1", "h2"}
Supervisor == "sv"
DeviceIds == {"cam1", "cam2"}
\* The device lists a call of the Ring client brings back: for a lookup of
\* cam1 a list either has the camera or has not.
Listings == {{d} : d \in DeviceIds}
SessionIds == {"s1"}
\* Cameras the Ring account may list, and the camera the clients ask for.
RequestDevices == {"cam1"}
\* Offer bodies the clients send, as token sequences: a codec name and an
\* origin line that carries the session id s1.
Offers == {<<>>, <<"o=s1">>, <<"H265", "o=s1">>}

\* str.replace('H265', 'H264') on a tokenised body (app.py 81).
ReplaceCodec(body) ==
    [i \in 1..Len(body) |-> IF body[i] = "H265" THEN "H264" ELSE body[i]]

\* RingWebRtcStream.get_sdp_session_id (app.py 82): the id of the first origin
\* line, None when the offer has none.
RECURSIVE get_sdp_session_id(_)
get_sdp_session_id(offer) ==
    IF offer = <<>> THEN None
    ELSE IF Head(offer) = "o=s1" THEN "s1"
    ELSE get_sdp_session_id(Tail(offer))

\* The requests the server routes to the two views (app.py 38-39).
PostRequests ==
    [method : {"POST"}, dev : RequestDevices, body : Offers, sid : {None},
     fac : BOOLEAN]
DeleteRequests ==
    [method : {"DELETE"}, dev : RequestDevices, body : {<<>>}, sid : SessionIds,
     fac : {FALSE}]
Requests == PostRequests \cup DeleteRequests
NoRequest == [method |-> None, dev |-> None, body |-> <<>>, sid |-> None, fac |-> FALSE]

NoScan == [done |-> FALSE, waited |-> FALSE, mid |-> FALSE, cold |-> FALSE, found |-> FALSE]
NoResponse == [kind |-> None, status |-> 0, body |-> None, location |-> None]
\* web.Response(...) as the views build it (app.py 98-103, 115-118).
Response(status, body, location) ==
    [kind |-> "response", status |-> status, body |-> body, location |-> location]
\* The handler coroutine ended by raising instead of returning a response.
Raised == [kind |-> "raised", status |-> 0, body |-> None, location |-> None]
\* What camera.generate_webrtc_stream returns.
Answer == "answer"

VARIABLES
    binder,       \* position of cleanup_ctx.wrapper
    svpc,         \* position of the supervisor task
    svCancel,     \* task.cancel() was called and is not delivered yet
    svLog,        \* the supervisor's events since its last completed cycle
    svFails,      \* consecutive failed attempts since the last success
    svBackoffs,   \* backoff sleeps since the last success
    registry,     \* ids of ring.video_devices()
    refreshed,    \* a list-devices call has succeeded
    lockOwner,    \* holder of update_lock, None when free
    lockWaiters,  \* FIFO of tasks waiting for update_lock
    hpc,          \* position of each request handler
    hreq,         \* its request
    hoffer,       \* POST: the offer after the codec substitution
    hscan,        \* what its get_camera scan observed
    hcalls,       \* calls it made into the Ring client
    harg,         \* the arguments of its call: <<offer tokens>>, or <<session id>>
    hext,         \* how its call into the Ring client ended
    hreg,         \* it registered a monitoring task
    hresp         \* its response, or how it ended

svVars == <<svpc, svCancel, svLog, svFails, svBackoffs>>
regVars == <<registry, refreshed>>
lockVars == <<lockOwner, lockWaiters>>
hVars == <<hpc, hreq, hoffer, hscan, hcalls, harg, hext, hreg, hresp>>
appVars == <<binder, svVars, regVars, lockVars, hVars>>

\* TaskWaitGroup (helpers.py 32-98) and the tasks given to it.
Tasks == {"t1", "t2", "t3"}
\* Completion callbacks: one that returns and one that raises an Exception.
Callbacks == {"cb", "bad"}
NoOp == [op |-> None, raised |-> FALSE]

VARIABLES
    tstate,       \* per task: "new" (not created), "running" or "done"
    gTasks,       \* self._tasks
    gGroupTask,   \* self._group_task: None, or the state of the task that
                  \* runs asyncio.wait: "pending", "waiting", "done"
    gCallbacks,   \* self._done_callbacks
    gAwaited,     \* the set asyncio.wait took when it started
    gCancel,      \* cancel() was called on the handle run() returned
    gResult,      \* how the handle ended: "ok", "error", "cancelled"
    gAtRun,       \* history: self._tasks when run() created the group task
    gInvoked,     \* history: the callbacks the last drain invoked, in order
    gLast         \* history: the last method called on the group

groupVars == <<tstate, gTasks, gGroupTask, gCallbacks, gAwaited, gCancel,
               gResult, gAtRun, gInvoked, gLast>>

\* TaskWaitGroup.__init__ (helpers.py 36-39); no task exists yet.
GroupInit ==
    /\ tstate = [t \in Tasks |-> "new"]
    /\ gTasks = {}
    /\ gGroupTask = None
    /\ gCallbacks = <<>>
    /\ gAwaited = {}
    /\ gCancel = FALSE
    /\ gResult = None
    /\ gAtRun = {}
    /\ gInvoked = <<>>
    /\ gLast = NoOp

\* The codec substitution, on offer texts as character sequences.
Chars == {"H", "2", "6", "5"}
Texts == UNION {[1..n -> Chars] : n \in 0..MaxTextLen}
OriginPrefix == <<"o", "=">>

VARIABLES
    cpc,          \* "received", "parsed", "forwarded" or "rejected"
    cBody,        \* the request body
    cOffer,       \* offer of WhepView.post
    cSid,         \* session_id of WhepView.post
    cArg          \* the offer generate_webrtc_stream was called with

codecVars == <<cpc, cBody, cOffer, cSid, cArg>>

\* No request body has been read.
CodecIdle ==
    /\ cpc = "idle"
    /\ cBody = <<>>
    /\ cOffer = <<>>
    /\ cSid = <<>>
    /\ cArg = <<>>

\* check_session_exists, one task per created session.
MonitorSessions == {"s1", "s2"}

VARIABLES
    mpc,          \* per POST: "idle", "generate", "done"
    mFac,         \* CREATE_TASK is in the request
    mStatus,      \* the status of the response, 0 before there is one
    mStreams,     \* the keys of camera._webrtc_streams
    mRegs,        \* per POST: monitoring tasks registered
    mTask,        \* per session: "none", "ready", "sleeping", "done"
    mElapsed,     \* per task: the seconds it has slept since it started
    mPolls        \* history: each test of the while condition, when it was
                  \* made and whether the session was there

monitorVars == <<mpc, mFac, mStatus, mStreams, mRegs, mTask, mElapsed, mPolls>>

\* No POST has arrived and the camera has no stream.
MonitorInit ==
    /\ mpc = [s \in MonitorSessions |-> "idle"]
    /\ mFac = [s \in MonitorSessions |-> FALSE]
    /\ mStatus = [s \in MonitorSessions |-> 0]
    /\ mStreams = {}
    /\ mRegs = [s \in MonitorSessions |-> 0]
    /\ mTask = [s \in MonitorSessions |-> "none"]
    /\ mElapsed = [s \in MonitorSessions |-> 0]
    /\ mPolls = [s \in MonitorSessions |-> <<>>]

auxVars == <<groupVars, codecVars, monitorVars>>
vars == <<appVars, auxVars>>

\* The application as create_whep_app leaves it (app.py 31-43).
AppInit ==
    /\ binder = "init"
    /\ svpc = None
    /\ svCancel = FALSE
    /\ svLog = <<>>
    /\ svFails = 0
    /\ svBackoffs = 0
    /\ registry = {}
    /\ refreshed = FALSE
    /\ lockOwner = None
    /\ lockWaiters = <<>>
    /\ hpc = [h \in Handlers |-> "idle"]
    /\ hreq = [h \in Handlers |-> NoRequest]
    /\ hoffer = [h \in Handlers |-> <<>>]
    /\ hscan = [h \in Handlers |-> NoScan]
    /\ hcalls = [h \in Handlers |-> 0]
    /\ harg = [h \in Handlers |-> <<>>]
    /\ hext = [h \in Handlers |-> None]
    /\ hreg = [h \in Handlers |-> FALSE]
    /\ hresp = [h \in Handlers |-> NoResponse]

Init == AppInit /\ GroupInit /\ CodecIdle /\ MonitorInit

\* ------------------------------------------------------------ update_lock
\* asyncio.Lock as app.py 35 creates it: acquire() takes the lock at once when
\* it is free and nobody waits, otherwise the caller queues; release() wakes
\* the first waiter, which owns the lock from then on.
LockFree == lockOwner = None /\ lockWaiters = <<>>

LockRelease ==
    IF lockWaiters = <<>>
    THEN lockOwner' = None /\ UNCHANGED lockWaiters
    ELSE lockOwner' = Head(lockWaiters) /\ lockWaiters' = Tail(lockWaiters)

LockEnqueue(p) ==
    /\ lockWaiters' = Append(lockWaiters, p)
    /\ UNCHANGED lockOwner

\* A waiter is cancelled: it leaves the queue, and passes the lock on when it
\* had just been given it.
LockAbandon(p) ==
    IF lockOwner = p
    THEN LockRelease
    ELSE /\ lockWaiters' = SelectSeq(lockWaiters, LAMBDA q : q # p)
         /\ UNCHANGED lockOwner

\* --------------------------------------------------------- the supervisor
\* The history kept of the supervisor: its attempts, their outcomes and its
\* sleeps, from the sleep that followed the last successful attempt on.
Push(log, events) ==
    IF log # <<>> /\ log[Len(log)] = "interval"
    THEN <<"interval">> \o events
    ELSE log \o events

Record(events) == svLog' = Push(svLog, events)

Sleeping == svpc \in {"sleep_interval", "sleep_backoff"}

\* periodic_updates.wrapper, `else:` branch (decorators.py 47-48).
WrapperOnReturn ==
    /\ svpc' = "sleep_interval"
    /\ Record(<<"ok", "interval">>)
    /\ svFails' = 0
    /\ svBackoffs' = 0
    /\ UNCHANGED svCancel

\* Variant of WrapperOnException that sleeps update_interval after a failure.
WrapperOnException_WrongSleep ==
    /\ svpc' = "sleep_interval"
    /\ Record(<<"fail", "interval">>)
    /\ svFails' = svFails + 1
    /\ svBackoffs' = svBackoffs
    /\ svCancel' = FALSE

\* Variant of WrapperOnException that lets the exception end the task.
WrapperOnException_GiveUp ==
    /\ svpc' = "crashed"
    /\ Record(<<"fail">>)
    /\ svFails' = svFails + 1
    /\ UNCHANGED <<svBackoffs, svCancel>>

\* periodic_updates.wrapper, `except Exception:` branch (decorators.py 44-46).
WrapperOnException ==
    /\ svpc' = "sleep_backoff"
    /\ Record(<<"fail", "backoff">>)
    /\ svFails' = svFails + 1
    /\ svBackoffs' = svBackoffs + 1
    /\ svCancel' = FALSE

\* Variant of WrapperOnCancelled that handles the cancellation like any other
\* exception of func: log, back off, retry.
WrapperOnCancelled_Retry == WrapperOnException

\* periodic_updates.wrapper, `except asyncio.CancelledError: raise`
\* (decorators.py 42-43): the task ends cancelled.
WrapperOnCancelled ==
    /\ svpc' = "cancelled"
    /\ svCancel' = FALSE
    /\ UNCHANGED <<svLog, svFails, svBackoffs>>

\* update_devices from its entry to its first suspension (app.py 46-49):
\* with the lock free the list-devices call starts at once.
CallStarts ==
    /\ svpc' = "call"
    /\ Record(<<"attempt">>)
    /\ UNCHANGED <<svFails, svBackoffs, svCancel>>

UpdateDevicesEnter ==
    IF LockFree
    THEN /\ lockOwner' = Supervisor
         /\ UNCHANGED lockWaiters
         /\ CallStarts
    ELSE /\ LockEnqueue(Supervisor)
         /\ svpc' = "lock_wait"
         /\ UNCHANGED <<svLog, svFails, svBackoffs, svCancel>>

\* The task's first step after create_task.
SvStart ==
    /\ svpc = "spawned"
    /\ ~svCancel
    /\ UpdateDevicesEnter
    /\ UNCHANGED <<binder, regVars, hVars, auxVars>>

\* A sleep ends and the loop runs its next iteration (decorators.py 39-41).
SvWake ==
    /\ Sleeping
    /\ ~svCancel
    /\ UpdateDevicesEnter
    /\ UNCHANGED <<binder, regVars, hVars, auxVars>>

\* The supervisor was waiting for update_lock and now has it (app.py 47).
SvLockGranted ==
    /\ svpc = "lock_wait"
    /\ lockOwner = Supervisor
    /\ ~svCancel
    /\ CallStarts
    /\ UNCHANGED <<binder, regVars, lockVars, hVars, auxVars>>

\* ring.async_update_devices() returns (app.py 49-50): the client has
\* replaced its device list; the lock is released on leaving the with block.
SvCallOk ==
    /\ svpc = "call"
    /\ ~svCancel
    /\ \E devs \in Listings : registry' = devs
    /\ refreshed' = TRUE
    /\ LockRelease
    /\ WrapperOnReturn
    /\ UNCHANGED <<binder, hVars, auxVars>>

\* ring.async_update_devices() raises (app.py 49): the with block releases
\* the lock and the exception reaches the wrapper.
SvCallFail ==
    /\ svpc = "call"
    /\ ~svCancel
    /\ svFails < MaxFails
    /\ LockRelease
    /\ WrapperOnException
    /\ UNCHANGED <<binder, regVars, hVars, auxVars>>

\* The task is cancelled before it ever ran.
SvCancelUnstarted ==
    /\ svpc = "spawned"
    /\ svCancel
    /\ svpc' = "cancelled"
    /\ svCancel' = FALSE
    /\ UNCHANGED <<svLog, svFails, svBackoffs>>
    /\ UNCHANGED <<binder, regVars, lockVars, hVars, auxVars>>

\* CancelledError is raised at the wait for update_lock (app.py 47).
SvCancelInLockWait ==
    /\ svpc = "lock_wait"
    /\ svCancel
    /\ LockAbandon(Supervisor)
    /\ WrapperOnCancelled
    /\ UNCHANGED <<binder, regVars, hVars, auxVars>>

\* Variant of SvCancelInCall for an update_devices that takes the lock with
\* acquire() and releases it only after the call has returned.
SvCancelInCall_KeepsLock ==
    /\ svpc = "call"
    /\ svCancel
    /\ WrapperOnCancelled
    /\ UNCHANGED <<binder, regVars, lockVars, hVars, auxVars>>

\* CancelledError is raised out of the list-devices call (app.py 49); the
\* with block releases the lock.
SvCancelInCall ==
    /\ svpc = "call"
    /\ svCancel
    /\ LockRelease
    /\ WrapperOnCancelled
    /\ UNCHANGED <<binder, regVars, hVars, auxVars>>

\* CancelledError is raised at asyncio.sleep (decorators.py 46, 48), which is
\* outside the try block.
SvCancelInSleep ==
    /\ Sleeping
    /\ svCancel
    /\ svpc' = "cancelled"
    /\ svCancel' = FALSE
    /\ UNCHANGED <<svLog, svFails, svBackoffs>>
    /\ UNCHANGED <<binder, regVars, lockVars, hVars, auxVars>>

\* -------------------------------------------------------------- the binder
\* asyncio.create_task(func(...)) (decorators.py 17).
SpawnTask == svpc' = "spawned"

\* Variant of BinderStart that awaits func(...) in place instead of creating
\* a task for it: the supervisor runs and the wrapper never reaches its yield.
BinderStart_Inline ==
    /\ binder = "init"
    /\ svpc = None
    /\ SpawnTask
    /\ UNCHANGED binder
    /\ UNCHANGED <<svCancel, svLog, svFails, svBackoffs>>
    /\ UNCHANGED <<regVars, lockVars, hVars, auxVars>>

\* cleanup_ctx.wrapper up to its yield (decorators.py 17-18).
BinderStart ==
    /\ binder = "init"
    /\ SpawnTask
    /\ binder' = "serving"
    /\ UNCHANGED <<svCancel, svLog, svFails, svBackoffs>>
    /\ UNCHANGED <<regVars, lockVars, hVars, auxVars>>

\* The server stops and the generator resumes: task.cancel() (decorators.py 19).
BinderStop ==
    /\ binder = "serving"
    /\ binder' = "awaiting"
    /\ svCancel' = (svpc # "cancelled")
    /\ UNCHANGED <<svpc, svLog, svFails, svBackoffs>>
    /\ UNCHANGED <<regVars, lockVars, hVars, auxVars>>

\* Variant of TaskDone for a wrapper that cancels the task without awaiting it.
TaskDone_NoAwait == TRUE

\* `await task` returns once the task is done (decorators.py 20-21).
TaskDone == svpc = "cancelled"

BinderJoin ==
    /\ binder = "awaiting"
    /\ TaskDone
    /\ binder' = "complete"
    /\ UNCHANGED <<svVars, regVars, lockVars, hVars, auxVars>>

\* ------------------------------------------------------------ the handlers
RefreshInProgress == svpc = "call"

\* The scan of get_camera (app.py 68-71): whether the caller had to wait for
\* the lock, whether a refresh was under way, whether no refresh had succeeded
\* yet, and whether the camera was found.
Scan(dev, waited) ==
    [done |-> TRUE, waited |-> waited, mid |-> RefreshInProgress,
     cold |-> ~refreshed, found |-> dev \in registry]

\* Variant of GetCameraMustWait for a get_camera that scans without the lock.
GetCameraMustWait_NoLock == FALSE

\* `async with self.data.update_lock` (app.py 67): the caller has to wait
\* unless the lock is free.
GetCameraMustWait == ~LockFree

ErrorText(method) ==
    IF method = "POST" THEN "Failed to start WebRTC session"
    ELSE "Failed to terminate WebRTC session"

\* get_camera after the scan (app.py 73-76) and the caller's next statement:
\* RuntimeError for an unknown device, caught by the view's except clause
\* (app.py 101-103, 116-118); otherwise the call into the Ring client starts
\* (app.py 93, 114).
\* The call a view makes on the camera it found: generate_webrtc_stream with
\* the offer (app.py 93), close_webrtc_stream with the session id (app.py 114).
CallCamera(h, r) ==
    /\ hpc' = [hpc EXCEPT ![h] = "extcall"]
    /\ hcalls' = [hcalls EXCEPT ![h] = @ + 1]
    /\ harg' = [harg EXCEPT ![h] =
           IF r.method = "POST" THEN ReplaceCodec(r.body) ELSE <<r.sid>>]
    /\ UNCHANGED hresp

\* Variant of AfterScan that does not test the camera for None.
AfterScan_NoCheck(h, r, waited) ==
    /\ hscan' = [hscan EXCEPT ![h] = Scan(r.dev, waited)]
    /\ CallCamera(h, r)

AfterScan(h, r, waited) ==
    /\ hscan' = [hscan EXCEPT ![h] = Scan(r.dev, waited)]
    /\ IF r.dev \in registry
       THEN CallCamera(h, r)
       ELSE /\ hpc' = [hpc EXCEPT ![h] = "done"]
            /\ hresp' = [hresp EXCEPT ![h] = Response(500, ErrorText(r.method), None)]
            /\ UNCHANGED <<hcalls, harg>>

\* get_camera from its entry (app.py 66-67).
GetCamera(h, r) ==
    IF GetCameraMustWait
    THEN /\ LockEnqueue(h)
         /\ hpc' = [hpc EXCEPT ![h] = "lock_wait"]
         /\ UNCHANGED <<hscan, hcalls, harg, hresp>>
    ELSE /\ AfterScan(h, r, FALSE)
         /\ UNCHANGED lockVars

\* WhepView.post from its entry to its first suspension (app.py 80-92).
PostStart(h, r) ==
    LET offer == ReplaceCodec(r.body)
        session_id == get_sdp_session_id(offer)
    IN  /\ r \in PostRequests
        /\ hreq' = [hreq EXCEPT ![h] = [r EXCEPT !.sid = session_id]]
        /\ hoffer' = [hoffer EXCEPT ![h] = offer]
        /\ IF session_id = None
           THEN \* assert session_id, outside the try block (app.py 83)
                /\ hpc' = [hpc EXCEPT ![h] = "done"]
                /\ hresp' = [hresp EXCEPT ![h] = Raised]
                /\ UNCHANGED <<hscan, hcalls, harg, lockVars>>
           ELSE GetCamera(h, r)

\* WhepResourceView.delete from its entry to its first suspension
\* (app.py 107-113).
DeleteStart(h, r) ==
    /\ r \in DeleteRequests
    /\ hreq' = [hreq EXCEPT ![h] = r]
    /\ UNCHANGED hoffer
    /\ GetCamera(h, r)

HStart(h) ==
    /\ hpc[h] = "idle"
    /\ binder = "serving"
    /\ \E r \in Requests : PostStart(h, r) \/ DeleteStart(h, r)
    /\ UNCHANGED <<binder, svVars, regVars, hext, hreg, auxVars>>

\* The handler was waiting for update_lock and now has it: it scans and
\* leaves the with block (app.py 67-71).
HLockGranted(h) ==
    /\ hpc[h] = "lock_wait"
    /\ lockOwner = h
    /\ LockRelease
    /\ AfterScan(h, hreq[h], TRUE)
    /\ UNCHANGED <<binder, svVars, regVars, hreq, hoffer, hext, hreg, auxVars>>

\* request[CREATE_TASK](check_session_exists(...)) (app.py 94-97) and the
\* response (app.py 98-100); an exception of the facility is caught by the
\* except clause (app.py 101-103).
PostFinish(h, registered) ==
    LET r == hreq[h]
    IN  /\ hreg' = [hreg EXCEPT ![h] = r.fac /\ registered]
        /\ hresp' = [hresp EXCEPT ![h] =
               IF r.fac /\ ~registered
               THEN Response(500, ErrorText("POST"), None)
               ELSE Response(201, Answer, <<r.dev, r.sid>>)]

\* How a call of request[CREATE_TASK] can end: it returns (TRUE) or raises
\* (FALSE). The facility creates the task and adds it to the task group, and
\* TaskWaitGroup.add raises while the group is draining.
CreateTaskOutcomes == BOOLEAN

\* The call into the Ring client returns (app.py 93, 114).
HExtOk(h) ==
    /\ hpc[h] = "extcall"
    /\ hpc' = [hpc EXCEPT ![h] = "done"]
    /\ hext' = [hext EXCEPT ![h] = "returned"]
    /\ IF hreq[h].method = "POST"
       THEN \E registered \in CreateTaskOutcomes :
                /\ (~hreq[h].fac => registered)
                /\ PostFinish(h, registered)
       ELSE /\ hresp' = [hresp EXCEPT ![h] = Response(204, None, None)]
            /\ UNCHANGED hreg
    /\ UNCHANGED <<binder, svVars, regVars, lockVars, hreq, hoffer, hscan, hcalls, harg, auxVars>>

\* Variant of HExtFail that calls the Ring client again after an exception.
HExtFail_Retry(h) ==
    /\ hpc[h] = "extcall"
    /\ hcalls[h] < 2
    /\ hcalls' = [hcalls EXCEPT ![h] = @ + 1]
    /\ UNCHANGED <<binder, svVars, regVars, lockVars, hpc, hreq, hoffer, hscan, harg, hext, hreg, hresp, auxVars>>

\* The call into the Ring client raises (app.py 101-103, 116-118).
HExtFail(h) ==
    /\ hpc[h] = "extcall"
    /\ hpc' = [hpc EXCEPT ![h] = "done"]
    /\ hext' = [hext EXCEPT ![h] = "raised"]
    /\ hresp' = [hresp EXCEPT ![h] = Response(500, ErrorText(hreq[h].method), None)]
    /\ UNCHANGED <<binder, svVars, regVars, lockVars, hreq, hoffer, hscan, hcalls, harg, hreg, auxVars>>

\* The connection is ready for its next request.
HNext(h) ==
    /\ hpc[h] = "done"
    /\ hpc' = [hpc EXCEPT ![h] = "idle"]
    /\ hreq' = [hreq EXCEPT ![h] = NoRequest]
    /\ hoffer' = [hoffer EXCEPT ![h] = <<>>]
    /\ hscan' = [hscan EXCEPT ![h] = NoScan]
    /\ hcalls' = [hcalls EXCEPT ![h] = 0]
    /\ harg' = [harg EXCEPT ![h] = <<>>]
    /\ hext' = [hext EXCEPT ![h] = None]
    /\ hreg' = [hreg EXCEPT ![h] = FALSE]
    /\ hresp' = [hresp EXCEPT ![h] = NoResponse]
    /\ UNCHANGED <<binder, svVars, regVars, lockVars, auxVars>>

\* ------------------------------------------------------- specifications
Next ==
    \/ BinderStart
    \/ BinderStop
    \/ BinderJoin
    \/ SvStart
    \/ SvWake
    \/ SvLockGranted
    \/ SvCallOk
    \/ SvCallFail
    \/ SvCancelUnstarted
    \/ SvCancelInLockWait
    \/ SvCancelInCall
    \/ SvCancelInSleep
    \/ \E h \in Handlers : HStart(h)
    \/ \E h \in Handlers : HLockGranted(h)
    \/ \E h \in Handlers : HExtOk(h)
    \/ \E h \in Handlers : HExtFail(h)
    \/ \E h \in Handlers : HNext(h)

Spec == Init /\ [][Next]_vars

\* What the event loop guarantees: a task that can run is run, a sleep ends,
\* a cancellation is delivered at a sleep or at a wait for the lock. Nothing
\* is guaranteed about the Ring client (a call may never return, and may take
\* for ever to unwind when cancelled), about the clients, or about the server
\* being stopped.
Fairness ==
    /\ WF_vars(BinderStart)
    /\ WF_vars(BinderJoin)
    /\ WF_vars(SvStart)
    /\ WF_vars(SvWake)
    /\ WF_vars(SvLockGranted)
    /\ WF_vars(SvCancelUnstarted)
    /\ WF_vars(SvCancelInLockWait)
    /\ WF_vars(SvCancelInSleep)
    /\ \A h \in Handlers : WF_vars(HLockGranted(h))

FairSpec == Spec /\ Fairness

\* ------------------------------------------------------------ TaskWaitGroup
\* helpers.py 32-98. The group task is the task run() creates around
\* asyncio.wait; the handle is what run() returns, the same task.
notGroup == <<appVars, codecVars, monitorVars>>

\* asyncio.create_task by the owner of a task that add() is given
\* (helpers.py 47).
TaskCreate(t) ==
    /\ tstate[t] = "new"
    /\ tstate' = [tstate EXCEPT ![t] = "running"]
    /\ UNCHANGED <<gTasks, gGroupTask, gCallbacks, gAwaited, gCancel, gResult,
                   gAtRun, gInvoked, gLast, notGroup>>

\* A task ends, by returning, raising or being cancelled by its owner.
TaskFinish(t) ==
    /\ tstate[t] = "running"
    /\ tstate' = [tstate EXCEPT ![t] = "done"]
    /\ UNCHANGED <<gTasks, gGroupTask, gCallbacks, gAwaited, gCancel, gResult,
                   gAtRun, gInvoked, gLast, notGroup>>

\* Variant of add without the test of _group_task.
add_NoGuard(t) ==
    /\ tstate[t] # "new"
    /\ gTasks' = gTasks \cup {t}
    /\ gLast' = [op |-> "add", raised |-> FALSE]
    /\ UNCHANGED <<tstate, gGroupTask, gCallbacks, gAwaited, gCancel, gResult,
                   gAtRun, gInvoked, notGroup>>

\* TaskWaitGroup.add (helpers.py 47-55).
add(t) ==
    /\ tstate[t] # "new"
    /\ IF gGroupTask # None
       THEN /\ gLast' = [op |-> "add", raised |-> TRUE]
            /\ UNCHANGED gTasks
       ELSE /\ gTasks' = gTasks \cup {t}
            /\ gLast' = [op |-> "add", raised |-> FALSE]
    /\ UNCHANGED <<tstate, gGroupTask, gCallbacks, gAwaited, gCancel, gResult,
                   gAtRun, gInvoked, notGroup>>

\* TaskWaitGroup.remove (helpers.py 57-65).
remove(t) ==
    /\ tstate[t] # "new"
    /\ IF gGroupTask # None
       THEN /\ gLast' = [op |-> "remove", raised |-> TRUE]
            /\ UNCHANGED gTasks
       ELSE /\ gTasks' = gTasks \ {t}
            /\ gLast' = [op |-> "remove", raised |-> FALSE]
    /\ UNCHANGED <<tstate, gGroupTask, gCallbacks, gAwaited, gCancel, gResult,
                   gAtRun, gInvoked, notGroup>>

\* TaskWaitGroup.add_done_callback (helpers.py 94-98).
add_done_callback(cb) ==
    /\ Len(gCallbacks) < MaxCallbacks
    /\ gCallbacks' = Append(gCallbacks, cb)
    /\ gLast' = [op |-> "add_done_callback", raised |-> FALSE]
    /\ UNCHANGED <<tstate, gTasks, gGroupTask, gAwaited, gCancel, gResult,
                   gAtRun, gInvoked, notGroup>>

\* TaskWaitGroup.run (helpers.py 67-81): a running group returns the handle
\* it has; otherwise the group task is created, and starts at a later turn of
\* the event loop.
run ==
    /\ IF gGroupTask # None
       THEN UNCHANGED <<gGroupTask, gAwaited, gCancel, gResult, gAtRun, gInvoked>>
       ELSE /\ gGroupTask' = "pending"
            /\ gAwaited' = {}
            /\ gCancel' = FALSE
            /\ gResult' = None
            /\ gAtRun' = gTasks
            /\ gInvoked' = <<>>
    /\ gLast' = [op |-> "run", raised |-> FALSE]
    /\ UNCHANGED <<tstate, gTasks, gCallbacks, notGroup>>

\* The group task starts asyncio.wait(self._tasks) (helpers.py 75-77): wait
\* raises ValueError for an empty set, otherwise it copies the set and waits.
WaitStart ==
    /\ gGroupTask = "pending"
    /\ ~gCancel
    /\ IF gTasks = {}
       THEN /\ gGroupTask' = "done"
            /\ gResult' = "error"
            /\ UNCHANGED gAwaited
       ELSE /\ gGroupTask' = "waiting"
            /\ gAwaited' = gTasks
            /\ UNCHANGED gResult
    /\ UNCHANGED <<tstate, gTasks, gCallbacks, gCancel, gAtRun, gInvoked, gLast,
                   notGroup>>

\* asyncio.wait returns: return_when=ALL_COMPLETED (helpers.py 76).
WaitComplete ==
    /\ gGroupTask = "waiting"
    /\ ~gCancel
    /\ \A t \in gAwaited : tstate[t] = "done"
    /\ gGroupTask' = "done"
    /\ gResult' = "ok"
    /\ UNCHANGED <<tstate, gTasks, gCallbacks, gAwaited, gCancel, gAtRun, gInvoked,
                   gLast, notGroup>>

\* The holder of the handle that run() returned cancels it (helpers.py 81).
HandleCancel ==
    /\ gGroupTask \in {"pending", "waiting"}
    /\ ~gCancel
    /\ gCancel' = TRUE
    /\ UNCHANGED <<tstate, gTasks, gGroupTask, gCallbacks, gAwaited, gResult,
                   gAtRun, gInvoked, gLast, notGroup>>

\* The cancellation reaches the group task: asyncio.wait ends with
\* CancelledError and leaves the tasks it waited for as they are.
WaitCancelled ==
    /\ gGroupTask \in {"pending", "waiting"}
    /\ gCancel
    /\ gGroupTask' = "done"
    /\ gResult' = "cancelled"
    /\ UNCHANGED <<tstate, gTasks, gCallbacks, gAwaited, gCancel, gAtRun, gInvoked,
                   gLast, notGroup>>

\* What callback(self) does.
CallbackRaises(cb) == cb = "bad"

\* Variant of RunCallbacks without the try block around the call.
RECURSIVE RunCallbacks_NoIsolation(_)
RunCallbacks_NoIsolation(cbs) ==
    IF cbs = <<>> THEN <<>>
    ELSE IF CallbackRaises(Head(cbs)) THEN <<Head(cbs)>>
    ELSE <<Head(cbs)>> \o RunCallbacks_NoIsolation(Tail(cbs))

\* The loop of _on_group_done (helpers.py 88-92): the callbacks it invokes, in
\* order; an Exception of a callback is logged and the loop goes on.
RECURSIVE RunCallbacks(_)
RunCallbacks(cbs) ==
    IF cbs = <<>> THEN <<>>
    ELSE IF CallbackRaises(Head(cbs))
         THEN <<Head(cbs)>> \o RunCallbacks(Tail(cbs))
         ELSE <<Head(cbs)>> \o RunCallbacks(Tail(cbs))

\* TaskWaitGroup._on_group_done (helpers.py 83-92), the done callback of the
\* group task; it runs before anything that awaits the handle resumes.
on_group_done ==
    /\ gGroupTask = "done"
    /\ gTasks' = {}
    /\ gGroupTask' = None
    /\ gInvoked' = RunCallbacks(gCallbacks)
    /\ gLast' = [op |-> "_on_group_done", raised |-> FALSE]
    /\ UNCHANGED <<tstate, gCallbacks, gAwaited, gCancel, gResult, gAtRun, notGroup>>

GroupNext ==
    \/ \E t \in Tasks : TaskCreate(t)
    \/ \E t \in Tasks : TaskFinish(t)
    \/ \E t \in Tasks : add(t)
    \/ \E t \in Tasks : remove(t)
    \/ \E cb \in Callbacks : add_done_callback(cb)
    \/ run
    \/ WaitStart
    \/ WaitComplete
    \/ HandleCancel
    \/ WaitCancelled
    \/ on_group_done

GroupSpec == Init /\ [][GroupNext]_vars

\* ------------------------------------------------------- codec substitution
\* WhepView.post from the body to the call of generate_webrtc_stream
\* (app.py 81-93), for a camera that is found, on texts character by character.
notCodec == <<appVars, groupVars, monitorVars>>

\* A request body: a text alone, or a text as the session id of an origin line.
Bodies == Texts \cup {OriginPrefix \o t : t \in Texts}

CodecInit ==
    /\ AppInit /\ GroupInit /\ MonitorInit
    /\ cpc = "received"
    /\ cBody \in Bodies
    /\ cOffer = <<>>
    /\ cSid = <<>>
    /\ cArg = <<>>

Old == <<"H", "2", "6", "5">>
New == <<"H", "2", "6", "4">>
StartsWith(s, p) == Len(s) >= Len(p) /\ SubSeq(s, 1, Len(p)) = p

\* Variant of replace that stops after the first occurrence, replace(.., 1).
RECURSIVE replace_FirstOnly(_)
replace_FirstOnly(s) ==
    IF s = <<>> THEN <<>>
    ELSE IF StartsWith(s, Old) THEN New \o SubSeq(s, Len(Old) + 1, Len(s))
    ELSE <<Head(s)>> \o replace_FirstOnly(Tail(s))

\* str.replace('H265', 'H264') (app.py 81): the text is scanned from the left,
\* a match is replaced and the scan goes on behind it.
RECURSIVE replace(_)
replace(s) ==
    IF s = <<>> THEN <<>>
    ELSE IF StartsWith(s, Old) THEN New \o replace(SubSeq(s, Len(Old) + 1, Len(s)))
    ELSE <<Head(s)>> \o replace(Tail(s))

\* get_sdp_session_id on a one-line text (app.py 82): what follows "o=", and
\* the empty sequence (for None) when the text is no origin line.
TextSessionId(text) ==
    IF StartsWith(text, OriginPrefix)
    THEN SubSeq(text, Len(OriginPrefix) + 1, Len(text))
    ELSE <<>>

\* app.py 81-82.
CodecParse ==
    /\ cpc = "received"
    /\ cOffer' = replace(cBody)
    /\ cSid' = TextSessionId(cOffer')
    /\ cpc' = "parsed"
    /\ UNCHANGED <<cBody, cArg, notCodec>>

\* assert session_id (app.py 83): None and '' fail it.
CodecAssertFails ==
    /\ cpc = "parsed"
    /\ cSid = <<>>
    /\ cpc' = "rejected"
    /\ UNCHANGED <<cBody, cOffer, cSid, cArg, notCodec>>

\* camera.generate_webrtc_stream(offer, ...) (app.py 93).
CodecForward ==
    /\ cpc = "parsed"
    /\ cSid # <<>>
    /\ cArg' = cOffer
    /\ cpc' = "forwarded"
    /\ UNCHANGED <<cBody, cOffer, cSid, notCodec>>

CodecNext ==
    \/ CodecParse
    \/ CodecAssertFails
    \/ CodecForward

CodecSpec == CodecInit /\ [][CodecNext]_vars

\* ------------------------------------------------------- monitoring tasks
\* WhepView.post from the call of generate_webrtc_stream on (app.py 93-103)
\* and check_session_exists (app.py 87-89), one POST per session id.
notMonitor == <<appVars, groupVars, codecVars>>

\* A POST with session id s has found its camera and calls
\* generate_webrtc_stream (app.py 92-93).
MonPost(s) ==
    /\ mpc[s] = "idle"
    /\ mpc' = [mpc EXCEPT ![s] = "generate"]
    /\ \E fac \in BOOLEAN : mFac' = [mFac EXCEPT ![s] = fac]
    /\ UNCHANGED <<mStatus, mStreams, mRegs, mTask, mElapsed, mPolls, notMonitor>>

\* generate_webrtc_stream returns with the stream among the camera's streams;
\* the handler goes on to its response without suspending (app.py 94-100).
\* The facility, when it returns, has made a task of the coroutine.
MonGenerateOk(s) ==
    /\ mpc[s] = "generate"
    /\ mpc' = [mpc EXCEPT ![s] = "done"]
    /\ mStreams' = mStreams \cup {s}
    /\ IF mFac[s]
       THEN \E returned \in CreateTaskOutcomes :
               IF returned
               THEN /\ mRegs' = [mRegs EXCEPT ![s] = @ + 1]
                    /\ mTask' = [mTask EXCEPT ![s] = "ready"]
                    /\ mStatus' = [mStatus EXCEPT ![s] = 201]
               ELSE /\ mStatus' = [mStatus EXCEPT ![s] = 500]
                    /\ UNCHANGED <<mRegs, mTask>>
       ELSE /\ mStatus' = [mStatus EXCEPT ![s] = 201]
            /\ UNCHANGED <<mRegs, mTask>>
    /\ UNCHANGED <<mFac, mElapsed, mPolls, notMonitor>>

\* generate_webrtc_stream raises (app.py 101-103).
MonGenerateFail(s) ==
    /\ mpc[s] = "generate"
    /\ mpc' = [mpc EXCEPT ![s] = "done"]
    /\ mStatus' = [mStatus EXCEPT ![s] = 500]
    /\ UNCHANGED <<mFac, mStreams, mRegs, mTask, mElapsed, mPolls, notMonitor>>

\* The stream leaves camera._webrtc_streams: it was closed by a DELETE
\* (app.py 114) or by the Ring client itself.
StreamClose(s) ==
    /\ s \in mStreams
    /\ mStreams' = mStreams \ {s}
    /\ UNCHANGED <<mpc, mFac, mStatus, mRegs, mTask, mElapsed, mPolls, notMonitor>>

Poll(s) == [at |-> mElapsed[s], present |-> s \in mStreams]

\* Variant of check_session_exists that ends only when two tests in a row
\* have found the session gone.
check_session_exists_Twice(s) ==
    /\ mTask[s] = "ready"
    /\ mPolls' = [mPolls EXCEPT ![s] = Append(@, Poll(s))]
    /\ IF s \in mStreams \/ mPolls[s] = <<>> \/ mPolls[s][Len(mPolls[s])].present
       THEN /\ Len(mPolls[s]) < MaxPolls
            /\ mTask' = [mTask EXCEPT ![s] = "sleeping"]
       ELSE mTask' = [mTask EXCEPT ![s] = "done"]
    /\ UNCHANGED <<mpc, mFac, mStatus, mStreams, mRegs, mElapsed, notMonitor>>

\* check_session_exists tests its while condition (app.py 88): it goes to
\* sleep when the session is there and returns when it is not.
check_session_exists(s) ==
    /\ mTask[s] = "ready"
    /\ mPolls' = [mPolls EXCEPT ![s] = Append(@, Poll(s))]
    /\ IF s \in mStreams
       THEN /\ Len(mPolls[s]) < MaxPolls
            /\ mTask' = [mTask EXCEPT ![s] = "sleeping"]
       ELSE mTask' = [mTask EXCEPT ![s] = "done"]
    /\ UNCHANGED <<mpc, mFac, mStatus, mStreams, mRegs, mElapsed, notMonitor>>

\* asyncio.sleep(60) ends (app.py 89).
MonitorWake(s) ==
    /\ mTask[s] = "sleeping"
    /\ mTask' = [mTask EXCEPT ![s] = "ready"]
    /\ mElapsed' = [mElapsed EXCEPT ![s] = @ + PollInterval]
    /\ UNCHANGED <<mpc, mFac, mStatus, mStreams, mRegs, mPolls, notMonitor>>

MonitorNext ==
    \/ \E s \in MonitorSessions : MonPost(s)
    \/ \E s \in MonitorSessions : MonGenerateOk(s)
    \/ \E s \in MonitorSessions : MonGenerateFail(s)
    \/ \E s \in MonitorSessions : StreamClose(s)
    \/ \E s \in MonitorSessions : check_session_exists(s)
    \/ \E s \in MonitorSessions : MonitorWake(s)

MonitorSpec == Init /\ [][MonitorNext]_vars

\* The event loop runs a task that is ready and ends a sleep that is over.
MonitorFairness ==
    \A s \in MonitorSessions :
        /\ WF_vars(check_session_exists(s))
        /\ WF_vars(MonitorWake(s))

MonitorFairSpec == MonitorSpec /\ MonitorFairness

\* ------------------------------------------------------------------ claims
Last(s) == s[Len(s)]

LegalNext(a, b) ==
    \/ a = "attempt" /\ b \in {"ok", "fail"}
    \/ a = "fail" /\ b = "backoff"
    \/ a = "ok" /\ b = "interval"
    \/ a \in {"backoff", "interval"} /\ b = "attempt"

\* C1: every failed list-devices attempt is followed by exactly one sleep of
\* backoff_interval and then one new attempt, a successful attempt by a sleep
\* of update_interval, the first attempt is preceded by no sleep, and after N
\* consecutive failures the supervisor has slept backoff_interval N times.
C1_RefreshRetry ==
    /\ \A i \in 1..(Len(svLog) - 1) : LegalNext(svLog[i], svLog[i + 1])
    /\ svLog # <<>> => (svLog[1] = "attempt" \/ (svLog[1] = "interval" /\ refreshed))
    /\ svBackoffs = svFails
    /\ svpc = "call" => Last(svLog) = "attempt"
    /\ svpc = "sleep_backoff" => Last(svLog) = "backoff"
    /\ svpc = "sleep_interval" => (Last(svLog) = "interval" /\ svFails = 0)
    /\ svpc \in {None, "spawned"} => svLog = <<>>

\* Two failures, then a success: two backoff sleeps, then the interval sleep.
C1_Witness ==
    /\ svpc = "sleep_interval"
    /\ svLog = <<"attempt", "fail", "backoff", "attempt", "fail", "backoff",
                 "attempt", "ok", "interval">>

\* C2: once the supervisor task is cancelled it starts no list-devices attempt
\* and no sleep and records no failure: its only step is to end, and once it
\* has ended it stays ended.
C2_CancellationExits ==
    [][/\ svCancel => (svLog' = svLog /\ svpc' \in {svpc, "cancelled"})
       /\ svpc = "cancelled" => (svLog' = svLog /\ svpc' = "cancelled")]_vars

\* The supervisor ended by a cancellation that arrived during a list-devices
\* call.
C2_Witness ==
    /\ svpc = "cancelled"
    /\ svLog # <<>>
    /\ Last(svLog) = "attempt"

\* C3: no get_camera scan takes place while a refresh is between taking and
\* releasing update_lock, the refresh runs only as owner of the lock, and a
\* handler owns the lock only for its scan.
C3_RegistryAtomicity ==
    /\ \A h \in Handlers : hscan[h].done => ~hscan[h].mid
    /\ RefreshInProgress => lockOwner = Supervisor
    /\ \A h \in Handlers : lockOwner = h => hpc[h] = "lock_wait"

\* Two lookups met a refresh: the first waited for the lock and has scanned
\* the refreshed registry, the second waited too and has just been given the
\* lock.
C3_Witness ==
    /\ hscan["h1"].done
    /\ hscan["h1"].waited
    /\ ~hscan["h1"].cold
    /\ hpc["h2"] = "lock_wait"
    /\ lockOwner = "h2"

\* C4: update_lock is not held while a call into the Ring client is in
\* flight, neither by the supervisor nor by a handler.
C4_NoLockAcrossExternalCall ==
    /\ ~(svpc = "call" /\ lockOwner = Supervisor)
    /\ \A h \in Handlers : hpc[h] = "extcall" => lockOwner # h

\* C5: a handler that waits for its device lookup gets to do it, whatever the
\* refresh's list-devices call does.
C5_LookupNeverBlocked ==
    \A h \in Handlers : (hpc[h] = "lock_wait") ~> (hpc[h] # "lock_wait")

\* C6: shutdown is complete only once the supervisor task has ended, and from
\* then on the supervisor starts no list-devices attempt.
C6_ShutdownWaits ==
    /\ [](binder = "complete" => (svpc = "cancelled" /\ ~svCancel))
    /\ [][binder = "complete" => svLog' = svLog]_vars

\* Shutdown completed after cancelling a supervisor that had made attempts.
C6_Witness ==
    /\ binder = "complete"
    /\ svLog # <<>>

\* C7: a binder that waits for the cancelled supervisor ends, with shutdown
\* complete or with a reported shutdown error.
C7_BoundedShutdown ==
    (binder = "awaiting") ~> (binder \in {"complete", "shutdown_error"})

C9_MalformedOfferIs4xx ==
    \A h \in Handlers :
        (hpc[h] = "done" /\ hreq[h].method = "POST" /\ hreq[h].sid = None) =>
            /\ hresp[h].kind = "response"
            /\ hresp[h].status \in 400..499
            /\ hcalls[h] = 0

\* C10: every handler ends by returning a response, never by raising.
C10_NoExceptionEscapes ==
    \A h \in Handlers : hpc[h] = "done" => hresp[h].kind = "response"

\* C11: a request whose device is not in the registry when get_camera scans
\* it ends without a call into the Ring client and with a response that is
\* not 2xx.
C11_UnknownDevice ==
    \A h \in Handlers :
        (hscan[h].done /\ ~hscan[h].found) =>
            /\ hpc[h] = "done"
            /\ hcalls[h] = 0
            /\ hext[h] = None
            /\ hresp[h].kind = "response"
            /\ hresp[h].status \notin 200..299

\* A POST and a DELETE for cam1 were looked up in a registry that a refresh
\* had filled without cam1.
C11_Witness ==
    /\ registry = {"cam2"}
    /\ \E h1, h2 \in Handlers :
          /\ hreq[h1].method = "POST"
          /\ hreq[h2].method = "DELETE"
          /\ \A h \in {h1, h2} :
                hscan[h].done /\ ~hscan[h].cold /\ ~hscan[h].found /\ hresp[h].status = 500

\* C12: a POST whose generate-stream call returned is answered 201 with the
\* answer as body and Location /device/whep/session, with or without a task
\* facility on the request, after exactly one generate-stream call.
C12_CreateSuccess ==
    \A h \in Handlers :
        (hreq[h].method = "POST" /\ hext[h] = "returned") =>
            /\ hresp[h] = Response(201, Answer, <<hreq[h].dev, hreq[h].sid>>)
            /\ hcalls[h] = 1

\* C13: a DELETE for a camera that was found calls close-stream once, with the
\* session id of the path; it answers 204 when the call returned and 500 with
\* the fixed text when it raised.
C13_Terminate ==
    \A h \in Handlers :
        (hreq[h].method = "DELETE" /\ hscan[h].done /\ hscan[h].found) =>
            /\ hcalls[h] = 1
            /\ harg[h] = <<hreq[h].sid>>
            /\ hext[h] = None => (hpc[h] = "extcall" /\ hresp[h] = NoResponse)
            /\ hext[h] = "returned" => hresp[h] = Response(204, None, None)
            /\ hext[h] = "raised" =>
                   hresp[h] = Response(500, "Failed to terminate WebRTC session", None)

\* One DELETE answered 204 and one answered 500 after close-stream raised.
C13_Witness ==
    \E h1, h2 \in Handlers :
        /\ hreq[h1].method = "DELETE" /\ hext[h1] = "returned" /\ hresp[h1].status = 204
        /\ hreq[h2].method = "DELETE" /\ hext[h2] = "raised" /\ hresp[h2].status = 500

RunningPcs == {"spawned", "lock_wait", "call", "sleep_interval", "sleep_backoff"}

\* C14: the supervisor task stops running only by a cancellation; a failed
\* attempt puts it to its backoff sleep and changes neither the registry nor
\* anything of a request handler; and from a backoff sleep it gets to its
\* next list-devices attempt, unless it is cancelled first.
C14_FailuresNeverStop ==
    /\ [][(svpc \in RunningPcs /\ svpc' \notin RunningPcs) =>
              (svCancel /\ svpc' = "cancelled")]_vars
    /\ [][svFails' > svFails =>
              (svpc' = "sleep_backoff" /\ UNCHANGED <<regVars, hVars>>)]_vars
    /\ (svpc = "sleep_backoff") ~> (svpc \in {"call", "cancelled"})

\* The supervisor makes an attempt after as many consecutive failures as the
\* environment produces.
C14_Witness ==
    /\ svpc = "call"
    /\ svFails = MaxFails

\* C20: while the supervisor sleeps, has not started or has ended, it neither
\* holds update_lock nor waits for it.
C20_NoLockOutsideRefresh ==
    (svpc \in {None, "spawned", "sleep_interval", "sleep_backoff", "cancelled"}) =>
        /\ lockOwner # Supervisor
        /\ \A i \in 1..Len(lockWaiters) : lockWaiters[i] # Supervisor

\* The supervisor was cancelled in the middle of a list-devices call and a
\* handler that waited for the lock has been given it.
C20_Witness ==
    /\ svpc = "cancelled"
    /\ svLog # <<>>
    /\ Last(svLog) = "attempt"
    /\ lockOwner \in Handlers

\* C15: when the handle of a drain has completed, the group tracks no task,
\* is not running, and the drain has invoked every registered callback once,
\* in registration order, whether or not some of them raised.
C15_Drain ==
    gLast.op = "_on_group_done" =>
        /\ gTasks = {}
        /\ gGroupTask = None
        /\ gResult # None
        /\ gInvoked = gCallbacks

\* Three tasks were added, the group was run and all three ended; the first
\* of three callbacks raised.
C15_Witness ==
    /\ gLast.op = "_on_group_done"
    /\ gResult = "ok"
    /\ gAtRun = Tasks
    /\ Len(gCallbacks) = 3
    /\ gCallbacks[1] = "bad"
    /\ gCallbacks[2] = "cb"
    /\ Len(gInvoked) = 3

\* C16: from run() until _on_group_done the tracked set is the one run() saw,
\* an add or remove in that time has raised, and the set asyncio.wait waits
\* for is that set.
C16_Sealing ==
    /\ gGroupTask # None =>
          /\ gTasks = gAtRun
          /\ gLast.op \in {"add", "remove"} => gLast.raised
    /\ (gGroupTask = "waiting" \/ (gGroupTask = "done" /\ gResult = "ok")) =>
          gAwaited = gAtRun

\* add was called during a drain for a running task the group does not track.
C16_Witness ==
    /\ gGroupTask = "waiting"
    /\ gLast = [op |-> "add", raised |-> TRUE]
    /\ \E t \in Tasks \ gTasks : tstate[t] = "running"

\* C17: after a drain has ended, completed or cancelled, no task that the
\* group tracked when it was run is still running.
C17_BatchCancel ==
    gLast.op = "_on_group_done" =>
        \A t \in gAtRun : tstate[t] = "done"

\* The body has an occurrence of H265 that ends at position i.
OccurrenceEndsAt(body, i) ==
    i >= Len(Old) /\ SubSeq(body, i - Len(Old) + 1, i) = Old

\* C18: the offer given to generate-stream is the body with the last character
\* of every H265 turned into 4 and every other character as it was, so a
\* body without H265 is forwarded as it is; and the session id is the one of
\* the substituted text.
C18_CodecSubstitution ==
    /\ cpc = "forwarded" =>
          /\ Len(cArg) = Len(cBody)
          /\ \A i \in 1..Len(cBody) :
                cArg[i] = IF OccurrenceEndsAt(cBody, i) THEN "4" ELSE cBody[i]
          /\ (\A i \in 1..Len(cBody) : ~OccurrenceEndsAt(cBody, i)) => cArg = cBody
    /\ cpc \in {"parsed", "forwarded", "rejected"} =>
          cSid = TextSessionId(replace(cBody))

\* An origin line whose id holds H265 twice was forwarded; its session id is
\* not the one of the body as it was sent.
C18_Witness ==
    /\ cpc = "forwarded"
    /\ cBody = OriginPrefix \o Old \o Old
    /\ cArg = OriginPrefix \o New \o New
    /\ cSid = New \o New
    /\ cSid # TextSessionId(cBody)

\* What C19 says of the state: at most one task per POST, and only with a
\* facility and after generate-stream has returned; the tests of the session
\* are 60 seconds apart; all but the last of them found the session, and the
\* task has ended exactly when its last test did not.
C19_Lifecycle ==
    \A s \in MonitorSessions :
        /\ mRegs[s] <= 1
        /\ (mTask[s] # "none") = (mRegs[s] = 1)
        /\ mRegs[s] = 1 => (mFac[s] /\ mpc[s] = "done" /\ mStatus[s] = 201)
        /\ \A i \in 1..Len(mPolls[s]) :
              /\ mPolls[s][i].at = (i - 1) * PollInterval
              /\ i < Len(mPolls[s]) => mPolls[s][i].present
        /\ (mTask[s] = "done") =
              (mPolls[s] # <<>> /\ ~mPolls[s][Len(mPolls[s])].present)

\* C19: the monitoring task of a session is registered and polls as
\* C19_Lifecycle says, and once the session is gone from the camera the task
\* ends.
C19_MonitorLifecycle ==
    /\ []C19_Lifecycle
    /\ \A s \in MonitorSessions :
          (mTask[s] # "none" /\ s \notin mStreams) ~> (mTask[s] = "done")

\* A task found its session at every test but the last, while the POST for
\* the other session, which carried no facility, got its 201 without a task.
C19_Witness ==
    \E s, o \in MonitorSessions :
        /\ mTask[s] = "done"
        /\ Len(mPolls[s]) = MaxPolls + 1
        /\ mStatus[o] = 201
        /\ ~mFac[o]
        /\ mTask[o] = "none"

====
